---- MODULE Spec2Model ----
(***************************************************************************)
(* The MCP route of httpxfinish: a shim in front of the mcp-handler        *)
(* framework.  The repository holds the route in several generations:      *)
(*   "route"    src/app/mcp/route.ts   manual fallback chosen by Accept    *)
(*   "part_000" src/unnamed/part_000   manual answers for every POST       *)
(*   "part_002" src/unnamed/part_002   header patch only                   *)
(* (src/unnamed/part_001 exports the framework handler with no shim; its   *)
(* tool callback is the one of part_000.)                                  *)
(*                                                                         *)
(* A request is handled in steps: Receive, then ManualPath or Bypass,      *)
(* then Delegate, then CoreHandler, then Return.                           *)
(***************************************************************************)
EXTENDS Integers, Sequences, FiniteSets, TLC

\* Longest target / ports / probes array a request carries.
MaxLen == 2

\* The observer counts the requests returned since its observation up to
\* this number.
MaxBetween == 2

VARIABLES
  variant,    \* which generation of the route is deployed
  pc,         \* "idle" | "received" | "delegate" | "core" | "done"
  req,        \* the inbound Request: [method, headers, body]
  bodyUsed,   \* the inbound body stream has been read (is disturbed)
  log,        \* console output of this request
  command,    \* <<c>> once a builder produced command string c, else <<>>
  fwd,        \* <<r>> once request r was handed to the framework handler
  resp,       \* the Response the caller gets
  prev        \* observer: <<[args, command, later]>> once it has noted one
              \* command generation, else <<>>

vars == <<variant, pc, req, bodyUsed, log, command, fwd, resp, prev>>

Variants == {"route", "part_000", "part_002"}

----------------------------------------------------------------------------
(* JSON values as the handler sees them after JSON.parse.  A key that is   *)
(* absent from an object reads as undefined.                               *)

JUndef == [t |-> "undefined"]
JNull == [t |-> "null"]
JStr(s) == [t |-> "string", v |-> s]
JNum(n) == [t |-> "number", v |-> n]
JArr(s) == [t |-> "array", v |-> s]
JObj(f) == [t |-> "object", v |-> f]
EmptyObject == JObj(<<>>)

\* o.k : undefined for a missing key and for a primitive or an array.
Field(o, k) ==
  IF o.t = "object" /\ k \in DOMAIN o.v THEN o.v[k] ELSE JUndef

\* JavaScript truthiness, as used by `x || y`.
Truthy(x) ==
  CASE x.t \in {"undefined", "null"} -> FALSE
    [] x.t = "string" -> x.v # ""
    [] x.t = "number" -> x.v # 0
    [] OTHER -> TRUE

\* x === "s"
IsString(x, s) == x.t = "string" /\ x.v = s

\* x?.length is truthy: a non-empty array or string.
HasLength(x) == x.t \in {"array", "string"} /\ Len(x.v) > 0

\* String.prototype.includes
Includes(s, sub) ==
  \E i \in 1..(Len(s) - Len(sub) + 1) : SubSeq(s, i, i + Len(sub) - 1) = sub

\* Array.prototype.join over strings.
RECURSIVE Join(_, _)
Join(s, sep) ==
  IF Len(s) = 0 THEN ""
  ELSE IF Len(s) = 1 THEN s[1]
  ELSE s[1] \o sep \o Join(Tail(s), sep)

\* join converts each number with String(n).
NumberStrings(ns) == [i \in 1..Len(ns) |-> ToString(ns[i])]

----------------------------------------------------------------------------
(* The two command builders.  target is an array of strings; ports and     *)
(* probes are JSON values (undefined when absent).                         *)

\* faulty variant: the ports flag is pushed after the probe flags
ManualCommandPortsLast(targets, ports, probes) ==
  LET cmd0 == <<"-u", Join(targets, ","), "-silent">>
      cmd1 == IF HasLength(probes)
              THEN cmd0 \o [i \in 1..Len(probes.v) |-> "-" \o probes.v[i]]
              ELSE cmd0
      cmd2 == IF HasLength(ports)
              THEN cmd1 \o <<"-p", Join(NumberStrings(ports.v), ",")>>
              ELSE cmd1
  IN "httpx " \o Join(cmd2, " ")

\* faulty variant: the cmd array lives at module scope and keeps the tokens of an
\* earlier call
ManualCommandCarryOver(targets, ports, probes) ==
  LET cmd0 == <<"-u", Join(targets, ","), "-silent">>
      cmd1 == IF HasLength(ports)
              THEN cmd0 \o <<"-p", Join(NumberStrings(ports.v), ",")>>
              ELSE cmd0
      cmd2 == IF HasLength(probes)
              THEN cmd1 \o [i \in 1..Len(probes.v) |-> "-" \o probes.v[i]]
              ELSE cmd1
  IN IF prev = <<>> THEN "httpx " \o Join(cmd2, " ")
     ELSE prev[1].command \o " " \o Join(cmd2, " ")

\* handler, manual tools/call branch
ManualCommand(targets, ports, probes) ==
  LET cmd0 == <<"-u", Join(targets, ","), "-silent">>
      cmd1 == IF HasLength(ports)
              THEN cmd0 \o <<"-p", Join(NumberStrings(ports.v), ",")>>
              ELSE cmd0
      cmd2 == IF HasLength(probes)
              THEN cmd1 \o [i \in 1..Len(probes.v) |-> "-" \o probes.v[i]]
              ELSE cmd1
  IN "httpx " \o Join(cmd2, " ")

\* faulty variant: `if (ports)` instead of `if (ports?.length)`
ToolCommandEmptyPorts(target, ports, probes) ==
  LET args0 == <<"-u", Join(target, ","), "-silent">>
      args1 == IF ports.t = "array"
               THEN args0 \o <<"-p", Join(NumberStrings(ports.v), ",")>>
               ELSE args0
      args2 == IF HasLength(probes)
               THEN args1 \o [i \in 1..Len(probes.v) |-> "-" \o probes.v[i]]
               ELSE args1
  IN "httpx " \o Join(args2, " ")

\* the tool callback registered with the framework
ToolCommand(target, ports, probes) ==
  LET args0 == <<"-u", Join(target, ","), "-silent">>
      args1 == IF HasLength(ports)
               THEN args0 \o <<"-p", Join(NumberStrings(ports.v), ",")>>
               ELSE args0
      args2 == IF HasLength(probes)
               THEN args1 \o [i \in 1..Len(probes.v) |-> "-" \o probes.v[i]]
               ELSE args1
  IN "httpx " \o Join(args2, " ")

\* the same callback as written in part_000 / part_001
\* (`ports && ports.length > 0`)
BaseToolCommand(target, ports, probes) ==
  LET args0 == <<"-u", Join(target, ","), "-silent">>
      args1 == IF Truthy(ports) /\ HasLength(ports)
               THEN args0 \o <<"-p", Join(NumberStrings(ports.v), ",")>>
               ELSE args0
      args2 == IF Truthy(probes) /\ HasLength(probes)
               THEN args1 \o [i \in 1..Len(probes.v) |-> "-" \o probes.v[i]]
               ELSE args1
  IN "httpx " \o Join(args2, " ")

ManualText(c) ==
  "Run this command locally (httpx must be installed):\n" \o c

ToolText(c) ==
  "Run this command locally (httpx must be installed):\n\n" \o c \o
  "\n\nExecution of CLI binaries is not performed on this hosted MCP server; it only builds the command for you."

BaseToolText(c) ==
  "Run this command locally (or in an environment with httpx installed):\n\n" \o c \o
  "\n\nThis server builds the command; execution of CLI binaries isn't performed in the hosted environment."

\* the zod schema of the tool: target a non-empty array, ports and probes
\* optional arrays
ValidToolArgs(args) ==
  /\ args.t = "object"
  /\ Field(args, "target").t = "array"
  /\ Len(Field(args, "target").v) >= 1
  /\ Field(args, "ports").t \in {"undefined", "array"}
  /\ Field(args, "probes").t \in {"undefined", "array"}

----------------------------------------------------------------------------
(* Responses.  JSON.stringify leaves out a key whose value is undefined,   *)
(* so a request without id gets a body without id.                         *)

InvalidParams == -32602

WithId(body, id) ==
  IF id.t = "undefined" THEN body ELSE ("id" :> id) @@ body

manualInitialize ==
  [jsonrpc |-> "2.0",
   result |-> [protocolVersion |-> "2025-03-26",
               capabilities |-> [tools |-> [listChanged |-> TRUE]],
               serverInfo |-> [name |-> "httpxfinish", version |-> "1.0.0"]]]

ToolsList ==
  [jsonrpc |-> "2.0",
   result |-> [tools |-> <<
     [name |-> "httpx",
      description |->
        "Scans target domains with httpx and lists active HTTP/HTTPS services.",
      inputSchema |->
        [type |-> "object",
         properties |-> [target |-> [type |-> "array", items |-> "string"],
                         ports |-> [type |-> "array", items |-> "number"],
                         probes |-> [type |-> "array", items |-> "string"]],
         required |-> <<"target">>]] >>]]

TargetRequired ==
  [jsonrpc |-> "2.0",
   error |-> [code |-> InvalidParams, message |-> "target is required"]]

CallResult(text) ==
  [jsonrpc |-> "2.0",
   result |-> [content |-> << [type |-> "text", text |-> text] >>]]

\* new Response(JSON.stringify(body), {status, headers})
ManualResponse(status, body) ==
  [src |-> "manual", status |-> status,
   contentType |-> "application/json", body |-> body]

NoResponse == [src |-> "none"]

\* an exception that leaves the handler: the host answers 500
Fault == [src |-> "fault", status |-> 500]

----------------------------------------------------------------------------
(* What the try block of the manual path comes to:                         *)
(*   "respond"   a Response is returned (with the command, if one is built)*)
(*   "caught"    an exception reached the catch clause                     *)
(*   "unhandled" no branch returned                                        *)

Respond(status, body, cmd) ==
  [kind |-> "respond", resp |-> ManualResponse(status, body), command |-> cmd]
Caught == [kind |-> "caught"]
Unhandled == [kind |-> "unhandled"]

\* faulty variant: the emptiness check of target is dropped
CallToolNoCheck(id, params) ==
  LET p == IF Truthy(params) THEN params ELSE EmptyObject
      name == Field(p, "name")
      a == Field(p, "arguments")
      args == IF a.t = "undefined" THEN EmptyObject ELSE a
  IN IF ~IsString(name, "httpx") THEN Unhandled
     ELSE IF args.t = "null" THEN Caught
     ELSE
       LET t == Field(args, "target")
           targets == IF Truthy(t) THEN t ELSE JArr(<<>>)
           ports == Field(args, "ports")
           probes == Field(args, "probes")
       IN IF \/ targets.t # "array"
             \/ HasLength(ports) /\ ports.t # "array"
             \/ HasLength(probes) /\ probes.t # "array"
          THEN Caught
          ELSE LET c == ManualCommand(targets.v, ports, probes)
               IN Respond(200, WithId(CallResult(ManualText(c)), id), <<c>>)

\* the `method === "tools/call"` branch
CallTool(id, params) ==
  LET p == IF Truthy(params) THEN params ELSE EmptyObject
      name == Field(p, "name")
      a == Field(p, "arguments")
      args == IF a.t = "undefined" THEN EmptyObject ELSE a
  IN IF ~IsString(name, "httpx") THEN Unhandled
     ELSE IF args.t = "null" THEN Caught          \* null.target: TypeError
     ELSE
       LET t == Field(args, "target")
           targets == IF Truthy(t) THEN t ELSE JArr(<<>>)
           ports == Field(args, "ports")
           probes == Field(args, "probes")
       IN IF targets.t \in {"array", "string"} /\ Len(targets.v) = 0
          THEN Respond(400, WithId(TargetRequired, id), <<>>)
          ELSE IF \/ targets.t # "array"          \* join is not a function
                  \/ HasLength(ports) /\ ports.t # "array"
                  \/ HasLength(probes) /\ probes.t # "array"
          THEN Caught
          ELSE LET c == ManualCommand(targets.v, ports, probes)
               IN Respond(200, WithId(CallResult(ManualText(c)), id), <<c>>)

\* faulty variant: initialize answers with a fixed id
DispatchFixedId(data) ==
  IF data.t \in {"null", "undefined"} THEN Caught
  ELSE
    LET id == Field(data, "id")
        method == Field(data, "method")
        params == Field(data, "params")
    IN IF IsString(method, "initialize")
       THEN Respond(200, WithId(manualInitialize, JNum(0)), <<>>)
       ELSE IF IsString(method, "tools/list")
       THEN Respond(200, WithId(ToolsList, id), <<>>)
       ELSE IF IsString(method, "tools/call")
       THEN CallTool(id, params)
       ELSE Unhandled

\* `const { id, method, params } = body` and the branches on method
Dispatch(data) ==
  IF data.t \in {"null", "undefined"} THEN Caught  \* cannot destructure
  ELSE
    LET id == Field(data, "id")
        method == Field(data, "method")
        params == Field(data, "params")
    IN IF IsString(method, "initialize")
       THEN Respond(200, WithId(manualInitialize, id), <<>>)
       ELSE IF IsString(method, "tools/list")
       THEN Respond(200, WithId(ToolsList, id), <<>>)
       ELSE IF IsString(method, "tools/call")
       THEN CallTool(id, params)
       ELSE Unhandled

(* The body of a request: none (null), text that is not JSON, or text     *)
(* that JSON.parse turns into value v.                                     *)
NoBody == [t |-> "none"]
BadText == [t |-> "text", v |-> "{oops"]
JsonBody(v) == [t |-> "json", v |-> v]

\* await req.json() / JSON.parse(await req.text()), then Dispatch
TryManual(body) ==
  IF body.t = "json" THEN Dispatch(body.v) ELSE Caught   \* SyntaxError

----------------------------------------------------------------------------
(* Headers *)

\* req.headers.get("accept") || ""
AcceptOf(headers) ==
  IF "accept" \in DOMAIN headers THEN headers["accept"] ELSE ""

BothModes == "application/json, text/event-stream"

DeclaresBoth(accept) ==
  Includes(accept, "application/json") /\ Includes(accept, "text/event-stream")

\* headers.set(name, value) on a copy
HeadersSet(headers, name, value) ==
  [n \in DOMAIN headers \cup {name} |-> IF n = name THEN value ELSE headers[n]]

\* faulty variant: the manual path is taken whatever the method
TakesManualPathAnyMethod(v, r) ==
  CASE v = "route" -> ~DeclaresBoth(AcceptOf(r.headers))
    [] v = "part_000" -> TRUE
    [] OTHER -> FALSE

\* the conditions around the try block
TakesManualPath(v, r) ==
  CASE v = "route" ->
         ~DeclaresBoth(AcceptOf(r.headers)) /\ r.method = "POST"
    [] v = "part_000" -> r.method = "POST"
    [] OTHER -> FALSE

\* the headers of the request handed to the framework
PatchedHeaders(v, headers) ==
  IF v = "part_000" /\ Includes(AcceptOf(headers), "text/event-stream")
  THEN headers
  ELSE HeadersSet(headers, "accept", BothModes)

\* `body: req.body` and req.clone() both throw a TypeError on a body that
\* has been read
CanReuseBody(body, used) == body.t = "none" \/ ~used

----------------------------------------------------------------------------
(* The framework handler (createMcpHandler).  A tools/call of httpx whose  *)
(* arguments pass the schema reaches the registered callback; what the     *)
(* framework answers otherwise is its own business.                        *)

CallArgs(body) ==
  IF body.t = "json"
  THEN Field(Field(body.v, "params"), "arguments")
  ELSE JUndef

IsToolCall(r) ==
  /\ r.method = "POST"
  /\ r.body.t = "json"
  /\ IsString(Field(r.body.v, "method"), "tools/call")
  /\ IsString(Field(Field(r.body.v, "params"), "name"), "httpx")
  /\ ValidToolArgs(CallArgs(r.body))

ToolResponse(v, args) ==
  LET target == Field(args, "target").v
      ports == Field(args, "ports")
      probes == Field(args, "probes")
      c == IF v = "part_000"
           THEN BaseToolCommand(target, ports, probes)
           ELSE ToolCommand(target, ports, probes)
  IN [resp |-> [src |-> "core", kind |-> "tool",
                text |-> IF v = "part_000" THEN BaseToolText(c) ELSE ToolText(c)],
      command |-> <<c>>]

CoreOutcomes(v, r) ==
  IF IsToolCall(r)
  THEN {ToolResponse(v, CallArgs(r.body))}
  ELSE {[resp |-> [src |-> "core", kind |-> k], command |-> <<>>] :
          k \in {"answer", "error"}}

----------------------------------------------------------------------------
(* Requests *)

TargetNames == {"a.com", "b.org"}
PortNumbers == {80, 443}
ProbeNames == {"title", "status-code"}

BSeq(S, n) == UNION {[1..k -> S] : k \in 0..n}

Optional(S, n) == {JUndef} \cup {JArr(s) : s \in BSeq(S, n)}

Args(t, p, q) == JObj([target |-> t, ports |-> p, probes |-> q])

\* target may also be a bare string: a type the manual path does not expect
ArgObjects ==
  {Args(t, p, q) : t \in Optional(TargetNames, MaxLen) \cup {JStr("a.com")},
                   p \in Optional(PortNumbers, MaxLen),
                   q \in Optional(ProbeNames, MaxLen)}

SampleArgs == Args(JArr(<<"a.com">>), JUndef, JUndef)

Params(name, a) == JObj([name |-> name, arguments |-> a])

Envelope(id, method, params) ==
  JObj([jsonrpc |-> JStr("2.0"), id |-> id, method |-> method, params |-> params])

Ids == {JUndef, JNum(1), JStr("abc")}

HttpxCalls ==
  {Envelope(id, JStr("tools/call"), Params(JStr("httpx"), a)) :
     id \in Ids, a \in {JUndef, JNull} \cup ArgObjects}

OtherCalls ==
  {Envelope(id, JStr("tools/call"), p) :
     id \in Ids,
     p \in {JUndef, JNull, Params(JStr("nmap"), SampleArgs),
            Params(JUndef, SampleArgs)}}

OtherMethods ==
  {Envelope(id, m, p) :
     id \in Ids,
     m \in {JUndef, JStr("initialize"), JStr("tools/list"), JStr("ping")},
     p \in {JUndef, Params(JStr("httpx"), SampleArgs)}}

PostBodies ==
  {NoBody, BadText, JsonBody(JNull), JsonBody(JNum(7))}
    \cup {JsonBody(e) : e \in HttpxCalls \cup OtherCalls \cup OtherMethods}

DeleteBodies ==
  {NoBody, BadText,
   JsonBody(Envelope(JNum(1), JStr("initialize"), JUndef)),
   JsonBody(Envelope(JNum(1), JStr("tools/call"), Params(JStr("httpx"), SampleArgs)))}

AcceptValues == {"application/json", "text/event-stream", BothModes, "*/*"}

ContentType == ("content-type" :> "application/json")

HeaderChoices ==
  {ContentType} \cup {("accept" :> a) @@ ContentType : a \in AcceptValues}

Request(m, h, b) == [method |-> m, headers |-> h, body |-> b]

Requests ==
  {Request("GET", h, NoBody) : h \in HeaderChoices}
    \cup {Request("DELETE", h, b) : h \in HeaderChoices, b \in DeleteBodies}
    \cup {Request("POST", h, b) : h \in HeaderChoices, b \in PostBodies}

NoRequest == [method |-> "none"]

----------------------------------------------------------------------------
(* The handler, step by step *)

Init ==
  /\ variant \in Variants
  /\ pc = "idle"
  /\ req = NoRequest
  /\ bodyUsed = FALSE
  /\ log = <<>>
  /\ command = <<>>
  /\ fwd = <<>>
  /\ resp = NoResponse
  /\ prev = <<>>

Arrive(r) ==
  /\ pc' = "received"
  /\ req' = r
  /\ UNCHANGED <<variant, bodyUsed, log, command, fwd, resp, prev>>

Receive ==
  /\ pc = "idle"
  /\ \E r \in Requests : Arrive(r)

\* part_000 prints the accept header of every request
AcceptLog(v) == IF v = "part_000" THEN <<"accept">> ELSE <<>>

ManualPath ==
  /\ pc = "received"
  /\ TakesManualPath(variant, req)
  /\ LET out == TryManual(req.body)
     IN /\ bodyUsed' = (req.body.t # "none")
        /\ log' = AcceptLog(variant) \o
                    (IF out.kind = "caught" THEN <<"error">> ELSE <<>>)
        /\ IF out.kind = "respond"
           THEN /\ resp' = out.resp
                /\ command' = out.command
                /\ pc' = "done"
           ELSE /\ resp' = resp
                /\ command' = command
                /\ pc' = "delegate"
  /\ UNCHANGED <<variant, req, fwd, prev>>

Bypass ==
  /\ pc = "received"
  /\ ~TakesManualPath(variant, req)
  /\ log' = AcceptLog(variant)
  /\ pc' = "delegate"
  /\ UNCHANGED <<variant, req, bodyUsed, command, fwd, resp, prev>>

Delegate ==
  /\ pc = "delegate"
  /\ IF CanReuseBody(req.body, bodyUsed)
     THEN /\ fwd' = <<Request(req.method,
                              PatchedHeaders(variant, req.headers), req.body)>>
          /\ resp' = resp
          /\ pc' = "core"
     ELSE /\ fwd' = fwd
          /\ resp' = Fault
          /\ pc' = "done"
  /\ UNCHANGED <<variant, req, bodyUsed, log, command, prev>>

CoreHandler ==
  /\ pc = "core"
  /\ \E out \in CoreOutcomes(variant, fwd[1]) :
       /\ resp' = out.resp
       /\ command' = out.command
  /\ pc' = "done"
  /\ UNCHANGED <<variant, req, bodyUsed, log, fwd, prev>>

Return ==
  /\ pc = "done"
  /\ pc' = "idle"
  /\ req' = NoRequest
  /\ bodyUsed' = FALSE
  /\ log' = <<>>
  /\ command' = <<>>
  /\ fwd' = <<>>
  /\ resp' = NoResponse
  /\ prev' = IF prev = <<>> \/ prev[1].later >= MaxBetween
             THEN prev
             ELSE <<[prev[1] EXCEPT !.later = @ + 1]>>
  /\ UNCHANGED variant

Next == Receive \/ ManualPath \/ Bypass \/ Delegate \/ CoreHandler \/ Return

Spec == Init /\ [][Next]_vars

----------------------------------------------------------------------------
(* Sessions: a few tool calls and other requests, with an observer that    *)
(* notes one command generation and compares later ones with it.  The      *)
(* observer reads the state and writes only prev.                          *)

SessionArgs ==
  {Args(JArr(t), p, q) : t \in BSeq(TargetNames, MaxLen) \ {<<>>},
                         p \in {JUndef, JArr(<<80>>)},
                         q \in {JUndef, JArr(<<"title">>)}}

SessionBodies ==
  {JsonBody(Envelope(JNum(1), JStr("tools/call"), Params(JStr("httpx"), a))) :
     a \in SessionArgs}
    \cup {JsonBody(Envelope(JNum(1), JStr("initialize"), JUndef)),
          JsonBody(Envelope(JNum(1), JStr("ping"), JUndef))}

SessionRequests ==
  {Request("POST", ("accept" :> a) @@ ContentType, b) :
     a \in {"application/json", BothModes}, b \in SessionBodies}

ReceiveSession ==
  /\ pc = "idle"
  /\ \E r \in SessionRequests : Arrive(r)

Remember ==
  /\ pc = "done"
  /\ command # <<>>
  /\ prev = <<>>
  /\ prev' = <<[args |-> CallArgs(req.body), command |-> command[1], later |-> 0]>>
  /\ UNCHANGED <<variant, pc, req, bodyUsed, log, command, fwd, resp>>

NextSession ==
  ReceiveSession \/ ManualPath \/ Bypass \/ Delegate \/ CoreHandler \/ Return
    \/ Remember

SpecSession == Init /\ [][NextSession]_vars

----------------------------------------------------------------------------
(* Properties *)

Accept == AcceptOf(req.headers)
Data == req.body.v
Handled == pc = "done"
OnManualPath == pc \notin {"idle", "received"} /\ TakesManualPath(variant, req)
JsonRequest == pc # "idle" /\ req.body.t = "json"
MethodIs(m) == JsonRequest /\ IsString(Field(Data, "method"), m)
HttpxCall ==
  MethodIs("tools/call") /\ IsString(Field(Field(Data, "params"), "name"), "httpx")
RequestId == Field(Data, "id")

\* the body of the response carries the id of the request, and none when
\* the request has none
EchoesId ==
  IF RequestId.t = "undefined"
  THEN "id" \notin DOMAIN resp.body
  ELSE "id" \in DOMAIN resp.body /\ resp.body.id = RequestId

TargetMissingOrEmpty ==
  LET a == CallArgs(req.body)
      t == Field(a, "target")
  IN /\ a.t \in {"undefined", "object"}
     /\ \/ t.t = "undefined"
        \/ t.t = "array" /\ Len(t.v) = 0

RECURSIVE CommaJoined(_)
CommaJoined(s) ==
  IF Len(s) = 0 THEN ""
  ELSE IF Len(s) = 1 THEN s[1]
  ELSE CommaJoined(SubSeq(s, 1, Len(s) - 1)) \o "," \o s[Len(s)]

RECURSIVE CommaJoinedNumbers(_)
CommaJoinedNumbers(s) ==
  IF Len(s) = 0 THEN ""
  ELSE IF Len(s) = 1 THEN ToString(s[1])
  ELSE CommaJoinedNumbers(SubSeq(s, 1, Len(s) - 1)) \o "," \o ToString(s[Len(s)])

RECURSIVE ProbeFlags(_)
ProbeFlags(q) ==
  IF Len(q) = 0 THEN "" ELSE " -" \o Head(q) \o ProbeFlags(Tail(q))

ExpectedCommand(T, P, Q) ==
  "httpx -u " \o CommaJoined(T) \o " -silent"
    \o (IF P.t = "array" /\ Len(P.v) >= 1
        THEN " -p " \o CommaJoinedNumbers(P.v) ELSE "")
    \o (IF Q.t = "array" THEN ProbeFlags(Q.v) ELSE "")

BuiltFor(a) == Handled /\ command # <<>> /\ CallArgs(req.body) = a

\* C2: for a non-empty target T the built command is "httpx -u " + T
\* comma-joined + " -silent", then " -p " + the ports comma-joined exactly
\* when ports are present and non-empty, then " -<q>" for each probe q in
\* input order; the manual response carries it after the instruction line.
C2_CommandShape ==
  (Handled /\ command # <<>>) =>
    LET a == CallArgs(req.body)
        expected == ExpectedCommand(Field(a, "target").v, Field(a, "ports"),
                                    Field(a, "probes"))
    IN /\ command[1] = expected
       /\ resp.src = "manual" =>
            resp.body.result.content[1].text =
              "Run this command locally (httpx must be installed):\n" \o expected

C2_Witness ==
  /\ Handled
  /\ resp.src = "manual"
  /\ CallArgs(req.body) =
       Args(JArr(<<"a.com", "b.org">>), JArr(<<80, 443>>),
            JArr(<<"title", "status-code">>))
  /\ command = <<"httpx -u a.com,b.org -silent -p 80,443 -title -status-code">>

\* C4: on the manual path an initialize request is answered with status 200
\* and a body under the id of the request whose result names protocol
\* version 2025-03-26, tools.listChanged and the server's name and version,
\* whatever the params.
C4_InitializeAnswered ==
  (Handled /\ OnManualPath /\ MethodIs("initialize")) =>
    /\ resp.src = "manual"
    /\ resp.status = 200
    /\ EchoesId
    /\ resp.body.result.protocolVersion = "2025-03-26"
    /\ resp.body.result.capabilities.tools.listChanged = TRUE
    /\ resp.body.result.serverInfo = [name |-> "httpxfinish", version |-> "1.0.0"]

C4_Witness ==
  /\ Handled /\ OnManualPath /\ MethodIs("initialize")
  /\ RequestId = JStr("abc")
  /\ Field(Data, "params").t = "object"
  /\ resp.src = "manual"
  /\ resp.body.id = JStr("abc")

\* C5: a command generation equals every earlier one for the same target,
\* ports and probes, whatever was handled in between and on whichever path.
C5_SameArgsSameCommand ==
  (Handled /\ command # <<>> /\ prev # <<>>) =>
    (prev[1].args = CallArgs(req.body) => command[1] = prev[1].command)

C5_Witness ==
  /\ Handled /\ command # <<>> /\ prev # <<>>
  /\ prev[1].later >= 2
  /\ prev[1].args = CallArgs(req.body)
  /\ resp.src = "manual"

\* C9: a GET or DELETE request never has its body read and never gets a
\* manual response; it is handed to the framework handler unchanged but for
\* the accept header, and the caller gets the framework's response.
C9_ManualPathPostOnly ==
  (pc # "idle" /\ req.method \in {"GET", "DELETE"}) =>
    /\ ~bodyUsed
    /\ resp.src \in {"none", "core"}
    /\ command = <<>>
    /\ Handled =>
         /\ resp.src = "core"
         /\ fwd # <<>>
         /\ fwd[1].method = req.method
         /\ fwd[1].body = req.body

C9_Witness ==
  /\ Handled
  /\ req.method = "DELETE"
  /\ MethodIs("initialize")
  /\ ~DeclaresBoth(Accept)
  /\ variant = "route"
  /\ resp.src = "core"

\* C10: for arguments the tool's schema accepts, the command on either path
\* is the one the manual branch builds and the one the registered callback
\* builds (in both spellings of the callback).
C10_BuildersAgree ==
  (Handled /\ command # <<>> /\ ValidToolArgs(CallArgs(req.body))) =>
    LET a == CallArgs(req.body)
        T == Field(a, "target").v
        P == Field(a, "ports")
        Q == Field(a, "probes")
    IN /\ command[1] = ManualCommand(T, P, Q)
       /\ command[1] = ToolCommand(T, P, Q)
       /\ command[1] = BaseToolCommand(T, P, Q)

C10_Witness ==
  /\ Handled
  /\ resp.src = "core"
  /\ command # <<>>
  /\ Field(CallArgs(req.body), "ports") = JArr(<<>>)
  /\ Field(CallArgs(req.body), "probes") = JArr(<<"status-code", "title">>)

MalformedBody ==
  /\ pc # "idle"
  /\ \/ req.body.t = "text"
     \/ req.body.t = "json" /\ Data.t = "null"

\* C3: a POST on the manual path whose body is not valid JSON, or is JSON
\* the dispatch cannot destructure, ends in no fault and no manual response:
\* the failure is caught and logged, the request is handed to the framework
\* handler and the caller gets the framework's response.
C3_MalformedBodyDelegated ==
  (Handled /\ OnManualPath /\ MalformedBody) =>
    /\ "error" \in {log[i] : i \in DOMAIN log}
    /\ resp.src = "core"
    /\ fwd # <<>>

UnknownMethodOrTool ==
  /\ JsonRequest
  /\ Data.t = "object"
  /\ LET m == Field(Data, "method")
         name == Field(Field(Data, "params"), "name")
     IN /\ m.t = "string"
        /\ \/ m.v \notin {"initialize", "tools/list", "tools/call"}
           \/ m.v = "tools/call" /\ name.t = "string" /\ name.v # "httpx"

\* C8: a POST on the manual path with a well-formed body whose method is
\* none of initialize, tools/list, tools/call, or a tools/call of another
\* tool than httpx, gets no response and no error from the shim: it reaches
\* the framework handler with its method and its body, and the caller gets
\* the framework's response.
C8_UnknownFallsThrough ==
  (Handled /\ OnManualPath /\ UnknownMethodOrTool) =>
    /\ resp.src = "core"
    /\ fwd # <<>>
    /\ fwd[1].method = req.method
    /\ fwd[1].body = req.body

\* C6: the path is chosen by the accept header: a manual response is given
\* only when accept does not declare text/event-stream (in route.ts also
\* when it lacks application/json), and a request declaring both gets no
\* manual response and is delegated.
C6_PathByAccept ==
  /\ (pc # "idle" /\ resp.src = "manual") =>
       \/ ~Includes(Accept, "text/event-stream")
       \/ variant = "route" /\ ~Includes(Accept, "application/json")
  /\ (pc # "idle" /\ DeclaresBoth(Accept)) =>
       /\ resp.src # "manual"
       /\ Handled => fwd # <<>>

\* C7: whatever accept header came in, the request handed to the framework
\* handler declares both application/json and text/event-stream; the
\* method and the other headers are the inbound ones.
C7_ForwardedAcceptsBoth ==
  (fwd # <<>>) =>
    /\ DeclaresBoth(AcceptOf(fwd[1].headers))
    /\ fwd[1].method = req.method
    /\ DOMAIN fwd[1].headers = DOMAIN req.headers \cup {"accept"}
    /\ \A n \in DOMAIN req.headers \ {"accept"} :
         fwd[1].headers[n] = req.headers[n]

====
